---------------------------- MODULE Spec2Model ----------------------------
(***************************************************************************)
(* nexus3-cli: deletion of assets through a server-side Groovy script.     *)
(*                                                                         *)
(*   RepositoryCollection.delete_assets  api/repository/collection.py      *)
(*   cmd_delete, _cmd_del_assets         cli/root_commands.py              *)
(*   cmd_del_assets_regex/_wildcard,                                       *)
(*   _cmd_del_assets, cmd_delete         cli/subcommand_repository.py      *)
(*   RepositoryCollection.delete         api/repository/collection.py      *)
(*                                                                         *)
(* One run of one CLI command is modelled: the command line is drawn in    *)
(* Init, the command dispatches to its _cmd_del_assets, which calls        *)
(* delete_assets once or twice; each call blocks on scripts.run, which the *)
(* remote service answers.  Between the two calls the run blocks on the    *)
(* confirmation prompt, where another actor may change the repository.     *)
(***************************************************************************)
EXTENDS Integers, Sequences, FiniteSets, TLC

(***************************************************************************)
(* Bounds of the model.                                                    *)
(***************************************************************************)
\* longest `assets` list of a response that is not the script's own answer
MaxAssets == 2

(***************************************************************************)
(* Universes the inputs are drawn from.                                    *)
(***************************************************************************)
RepoNames == {"releases", "snapshots"}
\* a literal path, and a pattern using % (the wildcard of del_assets_wildcard)
Patterns == {"/r/a", "/r/%"}
Paths == {"/r/a", "/r/b"}
ErrorTexts == {"boom"}
\* what the user may type at the prompt ("" is a bare ENTER)
Answers == {"", "no"}

Range(s) == {s[i] : i \in DOMAIN s}

Lists == UNION {[1..n -> Paths] : n \in 0..MaxAssets}

\* every order in which the set S can be listed
Orderings(S) == {l \in [1..Cardinality(S) -> S] : Range(l) = S}

(***************************************************************************)
(* JSON.  A JSON text is modelled by its syntax: a literal is its lexeme,  *)
(* an optional member is a sequence of length 0 (absent) or 1.             *)
(***************************************************************************)
\* json.dumps of a Python bool
BoolLit(b) == IF b THEN "true" ELSE "false"

\* json.dumps(jsonData): the members in insertion order, each
\* <<key, kind of value, lexeme>>
json_dumps(jsonData) ==
    << <<"repoName", "string", jsonData.repoName>>,
       <<"assetRegex", "string", jsonData.assetRegex>>,
       <<"isWildcard", "literal", BoolLit(jsonData.isWildcard)>>,
       <<"dryRun", "literal", BoolLit(jsonData.dryRun)>> >>

\* the value of member `key` of a dumped object (the documented schema of the
\* wire payload, read back)
Member(text, key) ==
    LET i == CHOOSE j \in DOMAIN text : text[j][1] = key IN text[i][3]

\* the wire payload decoded through the documented schema
\* { "repoName": string, "assetRegex": string, "isWildcard": bool, "dryRun": bool }
DecodePayload(text) ==
    [repoName   |-> Member(text, "repoName"),
     assetRegex |-> Member(text, "assetRegex"),
     isWildcard |-> (Member(text, "isWildcard") = "true"),
     dryRun     |-> (Member(text, "dryRun") = "true")]

\* the lexemes `success` may carry: the protocol makes it a bool
SuccessLits == {"true", "false"}

\* a JSON value of member `assets`: null, or a list of strings
AssetsNull == [isNull |-> TRUE, items |-> <<>>]
AssetsList(l) == [isNull |-> FALSE, items |-> l]

\* the inner JSON text (the value of `result`): an object with optional
\* members, the literal null, a number, or a text that is no JSON
InnerObject(s, e, a) == [kind |-> "object", success |-> s, error |-> e, assets |-> a]
InnerOther(k) == [kind |-> k, success |-> <<>>, error |-> <<>>, assets |-> <<>>]

InnerTexts ==
    {InnerObject(s, e, a) :
        s \in {<<>>} \cup {<<x>> : x \in SuccessLits},
        e \in {<<>>} \cup {<<x>> : x \in ErrorTexts},
        a \in {<<>>, <<AssetsNull>>} \cup {<<AssetsList(l)>> : l \in Lists}}
    \cup {InnerOther("null"), InnerOther("number"), InnerOther("invalid")}

\* Python's value of a JSON literal
PyLiteral(lexeme) ==
    CASE lexeme = "true"  -> "True"
      [] lexeme = "false" -> "False"
      [] lexeme = "null"  -> "None"
      [] OTHER            -> lexeme

\* json.loads of the inner text: a dict (its keys, and the value of each),
\* None, an int, or a JSONDecodeError
json_loads(text) ==
    CASE text.kind = "object" ->
            [type    |-> "dict",
             keys    |-> {k \in {"success", "error", "assets"} :
                            \/ k = "success" /\ text.success # <<>>
                            \/ k = "error" /\ text.error # <<>>
                            \/ k = "assets" /\ text.assets # <<>>},
             success |-> IF text.success = <<>> THEN "" ELSE PyLiteral(text.success[1]),
             error   |-> IF text.error = <<>> THEN "" ELSE text.error[1],
             assets  |-> IF text.assets = <<>> THEN AssetsNull ELSE text.assets[1]]
      [] text.kind = "null" ->
            [type |-> "NoneType", keys |-> {}, success |-> "", error |-> "",
             assets |-> AssetsNull]
      [] text.kind = "number" ->
            [type |-> "int", keys |-> {}, success |-> "", error |-> "",
             assets |-> AssetsNull]
      [] OTHER ->
            [type |-> "JSONDecodeError", keys |-> {}, success |-> "", error |-> "",
             assets |-> AssetsNull]

(***************************************************************************)
(* scripts.run(SCRIPT_NAME_DELETE_ASSETS, data=...): either the transport  *)
(* fails (NexusClientAPIError with the body), or the decoded top-level     *)
(* JSON is returned, a mapping with or without `result`.                   *)
(***************************************************************************)
NoResponse == [status |-> "none", keys |-> {}, result |-> InnerOther("none")]
TransportFailure == [status |-> "failed", keys |-> {}, result |-> InnerOther("none")]
RawWithResult(inner) == [status |-> "ok", keys |-> {"name", "result"}, result |-> inner]
RawWithoutResult == [status |-> "ok", keys |-> {"name"}, result |-> InnerOther("none")]

(***************************************************************************)
(* What a call of delete_assets ends with: a returned list or an exception *)
(* (its class, and what it carries: the raw response, a message, ...).     *)
(***************************************************************************)
\* a Python value that is a list or None
PyList(l) == [isNull |-> FALSE, items |-> l]
PyNone == [isNull |-> TRUE, items |-> <<>>]

Pending == [kind |-> "pending", exc |-> "", arg |-> "", message |-> "", value |-> PyNone]
Return(v) == [kind |-> "return", exc |-> "", arg |-> "", message |-> "", value |-> v]
Raise(cls, what, msg) ==
    [kind |-> "raise", exc |-> cls, arg |-> what, message |-> msg, value |-> PyNone]

\* the test of line 176 left out
result_missing_unchecked(groovy_returned_json) == FALSE

\* line 176: 'result' not in groovy_returned_json
result_missing(groovy_returned_json) == "result" \notin groovy_returned_json.keys

\* line 179 testing for None only
assets_missing_none_only(script_result) == script_result.type = "NoneType"

\* line 179: script_result == None or 'assets' not in script_result
assets_missing(script_result) ==
    script_result.type = "NoneType" \/ "assets" \notin script_result.keys

\* line 182 with the comparison to False dropped
script_failed_truthy(script_result) ==
    "success" \in script_result.keys /\ script_result.success = "True"

\* line 182: 'success' in script_result and script_result['success']==False
script_failed(script_result) ==
    "success" \in script_result.keys /\ script_result.success = "False"

\* line 183: raise NexusClientAPIError(script_result['error'])
raise_script_error(script_result) ==
    IF "error" \in script_result.keys
    THEN Raise("NexusClientAPIError", "message", script_result.error)
    ELSE Raise("KeyError", "", "error")

\* lines 185-188 without the test for None
assets_list_keeps_none(script_result) ==
    IF script_result.assets.isNull THEN PyNone ELSE PyList(script_result.assets.items)

\* lines 185-188 returning list(set(assets))
assets_list_dedup(script_result) ==
    IF script_result.assets.isNull
    THEN PyList(<<>>)
    ELSE PyList(CHOOSE l \in Orderings(Range(script_result.assets.items)) : TRUE)

\* lines 185-188: None becomes [], a list is returned as it is
assets_list(script_result) ==
    IF script_result.assets.isNull THEN PyList(<<>>) ELSE PyList(script_result.assets.items)

\* lines 173-188 with the test of line 182 made before that of line 179
ParseResponse_success_first(groovy_returned_json) ==
    IF groovy_returned_json.status = "failed"
    THEN Raise("NexusClientAPIError", "body", "")
    ELSE IF result_missing(groovy_returned_json)
    THEN Raise("NexusClientAPIError", "raw_response", "")
    ELSE LET script_result == json_loads(groovy_returned_json.result) IN
         CASE script_result.type = "JSONDecodeError" ->
                Raise("JSONDecodeError", "", "")
           [] script_result.type = "int" ->
                Raise("TypeError", "", "")
           [] OTHER ->
                IF script_failed(script_result)
                THEN raise_script_error(script_result)
                ELSE IF assets_missing(script_result)
                THEN Raise("NexusClientAPIError", "raw_response", "")
                ELSE Return(assets_list(script_result))

\* lines 173-188 of delete_assets: the outcome for the answer of scripts.run
ParseResponse(groovy_returned_json) ==
    IF groovy_returned_json.status = "failed"
    THEN Raise("NexusClientAPIError", "body", "")
    ELSE IF result_missing(groovy_returned_json)
    THEN Raise("NexusClientAPIError", "raw_response", "")
    ELSE LET script_result == json_loads(groovy_returned_json.result) IN
         CASE script_result.type = "JSONDecodeError" ->
                Raise("JSONDecodeError", "", "")
           [] script_result.type = "int" ->
                \* 'assets' not in 5: argument of type 'int' is not iterable
                Raise("TypeError", "", "")
           [] OTHER ->
                IF assets_missing(script_result)
                THEN Raise("NexusClientAPIError", "raw_response", "")
                ELSE IF script_failed(script_result)
                THEN raise_script_error(script_result)
                ELSE Return(assets_list(script_result))

(***************************************************************************)
(* The remote service.  The deletion script itself is not part of the      *)
(* client: its answer is modelled from the documented protocol.  It lists  *)
(* the assets of the repository that match, in any order, and removes them *)
(* unless dryRun.  Any other answer (a failure report, a malformed         *)
(* response, a list that is not the match set, a transport failure) leaves *)
(* the repository as it was.                                               *)
(***************************************************************************)
\* does path p match the pattern?  % stands for any characters in a wildcard
PathMatches(p, pattern, isWildcard) ==
    IF isWildcard THEN pattern = "/r/%" \/ pattern = p ELSE pattern = p

ServerMatches(contents, pattern, isWildcard) ==
    {p \in contents : PathMatches(p, pattern, isWildcard)}

ScriptAnswers(contents, wire) ==
    LET request == DecodePayload(wire)
        matched == ServerMatches(contents, request.assetRegex, request.isWildcard)
    IN  {[server        |-> "script",
          raw           |-> RawWithResult(
                              InnerObject(<<"true">>, <<"">>, <<AssetsList(l)>>)),
          contentsAfter |-> IF request.dryRun THEN contents ELSE contents \ matched]
         : l \in Orderings(matched)}

OtherAnswers(contents) ==
    {[server |-> "other", raw |-> r, contentsAfter |-> contents]
     : r \in {TransportFailure, RawWithoutResult}
             \cup {RawWithResult(i) : i \in InnerTexts}}

ServerAnswers(contents, wire) == ScriptAnswers(contents, wire) \cup OtherAnswers(contents)

(***************************************************************************)
(* The scripts the service stores for this client.                         *)
(***************************************************************************)
SCRIPT_NAME_DELETE_ASSETS == "nexus3-cli-repository-delete-assets"

\* line 163: nexus_util.groovy_script(script_name), the body this client ships
groovy_script(script_name) == <<script_name, "shipped">>

\* what the service holds under a script name: nothing, a body left there by
\* a client of another version, or the body this client ships
NoScript == <<>>
StaleScript == <<SCRIPT_NAME_DELETE_ASSETS, "stale">>
ScriptStores == {NoScript, StaleScript, groovy_script(SCRIPT_NAME_DELETE_ASSETS)}

(***************************************************************************)
(* The command line and the exit of the process.                           *)
(***************************************************************************)
\* errors.CliReturnCode: 0 for success, distinct non-zero codes otherwise
CliReturnCode ==
    [SUCCESS |-> 0, NO_FILES |-> 1, API_ERROR |-> 2, INVALID_SUBCOMMAND |-> 3]

\* exit status of the interpreter when an exception leaves main() uncaught
UncaughtExit == 1

Running == [kind |-> "running", code |-> "", exc |-> ""]
Returned(code) == [kind |-> "returned", code |-> code, exc |-> ""]
Raised(cls) == [kind |-> "raised", code |-> "", exc |-> cls]
\* the run was stopped at the prompt (ctrl+c); no code path of the command
\* decides how it ends
Interrupted == [kind |-> "interrupted", code |-> "", exc |-> "KeyboardInterrupt"]

ExitCode(r) ==
    CASE r.kind = "returned" -> CliReturnCode[r.code]
      [] r.kind = "raised"   -> UncaughtExit
      [] OTHER               -> -1

ArgvRoot ==
    [cmd : {"delete"}, repoName : RepoNames, pattern : Patterns,
     pathValid : BOOLEAN, wildcard : BOOLEAN, regex : BOOLEAN, force : BOOLEAN]

ArgvRepository ==
    [cmd : {"del_assets_regex", "del_assets_wildcard"}, repoName : RepoNames,
     pattern : Patterns, pathValid : {TRUE}, wildcard : {FALSE}, regex : {FALSE},
     force : BOOLEAN]

\* nexus3 repository (delete|del) <repo_name> [--force]
ArgvRepositoryDelete ==
    [cmd : {"repository delete"}, repoName : RepoNames, pattern : {""},
     pathValid : {TRUE}, wildcard : {FALSE}, regex : {FALSE}, force : BOOLEAN]

VARIABLES
    pc,       \* where the run is: Args, Rejected; Idle, Previewing,
              \* AwaitingConfirmation, Deleting, Done (the states of
              \* _cmd_del_assets); AwaitingRepositoryConfirmation,
              \* DeletingRepository, RepositoryDeleted (repository delete);
              \* Aborted (the process was interrupted at a prompt)
    argv,     \* the command line
    match,    \* third argument of _cmd_del_assets: assetMatchOption (root) or
              \* isWildcard (repository subcommand)
    calls,    \* the delete_assets calls of the run, in order
    ops,      \* the calls of the run to its collaborators (scripts.*,
              \* util.input_with_default), in order
    resp,     \* groovy_returned_json of the latest scripts.run
    repo,     \* the service: the assets of the repository
    scripts,  \* the service: the script stored as SCRIPT_NAME_DELETE_ASSETS
    prompts,  \* how many times the confirmation prompt was shown
    answers,  \* what the prompt returned, in order
    out,      \* what the command wrote
    ret       \* how the command ended

vars == <<pc, argv, match, calls, ops, resp, repo, scripts, prompts, answers, out, ret>>

Init ==
    /\ pc = "Args"
    /\ argv \in ArgvRoot \cup ArgvRepository \cup ArgvRepositoryDelete
    /\ match = "unset"
    /\ calls = <<>>
    /\ ops = <<>>
    /\ resp = NoResponse
    /\ repo \in SUBSET Paths
    /\ scripts \in ScriptStores
    /\ prompts = 0
    /\ answers = <<>>
    /\ out = <<>>
    /\ ret = Running

(***************************************************************************)
(* root_commands.cmd_delete                                                *)
(***************************************************************************)
\* lines 198-206: the match option of the flags
AssetMatch(options) ==
    IF options.wildcard THEN "WILDCARD"
    ELSE IF options.regex THEN "REGEX"
    ELSE "EXACT_NAME"

\* cmd_delete without the test of lines 199-201
cmd_delete_no_exclusion ==
    /\ pc = "Args"
    /\ argv.cmd = "delete"
    /\ IF ~argv.pathValid
       THEN /\ out' = Append(out, "Invalid <repository_path> provided")
            /\ ret' = Returned("INVALID_SUBCOMMAND")
            /\ pc' = "Rejected"
            /\ UNCHANGED match
       ELSE /\ match' = AssetMatch(argv)
            /\ pc' = "Idle"
            /\ UNCHANGED <<out, ret>>
    /\ UNCHANGED <<argv, calls, ops, resp, repo, scripts, prompts, answers>>

cmd_delete ==
    /\ pc = "Args"
    /\ argv.cmd = "delete"
    /\ IF ~argv.pathValid
       THEN /\ out' = Append(out, "Invalid <repository_path> provided")
            /\ ret' = Returned("INVALID_SUBCOMMAND")
            /\ pc' = "Rejected"
            /\ UNCHANGED match
       ELSE IF argv.wildcard /\ argv.regex
       THEN /\ out' = Append(out, "Cannot provide both --regex and --wildcard")
            /\ ret' = Returned("INVALID_SUBCOMMAND")
            /\ pc' = "Rejected"
            /\ UNCHANGED match
       ELSE /\ match' = AssetMatch(argv)
            /\ pc' = "Idle"
            /\ UNCHANGED <<out, ret>>
    /\ UNCHANGED <<argv, calls, ops, resp, repo, scripts, prompts, answers>>

(***************************************************************************)
(* subcommand_repository.cmd_del_assets_regex / cmd_del_assets_wildcard    *)
(***************************************************************************)
\* cmd_del_assets_regex passing True as cmd_del_assets_wildcard does
cmd_del_assets_regex_as_wildcard ==
    /\ pc = "Args"
    /\ argv.cmd = "del_assets_regex"
    /\ match' = "True"
    /\ pc' = "Idle"
    /\ UNCHANGED <<argv, calls, ops, resp, repo, scripts, prompts, answers, out, ret>>

cmd_del_assets_regex ==
    /\ pc = "Args"
    /\ argv.cmd = "del_assets_regex"
    /\ match' = "False"
    /\ pc' = "Idle"
    /\ UNCHANGED <<argv, calls, ops, resp, repo, scripts, prompts, answers, out, ret>>

cmd_del_assets_wildcard ==
    /\ pc = "Args"
    /\ argv.cmd = "del_assets_wildcard"
    /\ match' = "True"
    /\ pc' = "Idle"
    /\ UNCHANGED <<argv, calls, ops, resp, repo, scripts, prompts, answers, out, ret>>


(***************************************************************************)
(* RepositoryCollection.delete_assets, up to the call of scripts.run.      *)
(***************************************************************************)
\* AssetMatchOptions is not defined in collection.py; its wire form follows
\* the documented payload: isWildcard is true exactly for WILDCARD
AssetMatchOptionsIsWildcard(option) == option = "WILDCARD"

\* line 172 sending dryRun as False whatever the argument
jsonData_never_dry(reponame, assetRegex, isWildcard, dryRun) ==
    [repoName   |-> reponame,
     assetRegex |-> assetRegex,
     isWildcard |-> IF isWildcard \in {"True", "False"}
                    THEN isWildcard = "True"
                    ELSE AssetMatchOptionsIsWildcard(isWildcard),
     dryRun     |-> FALSE]

\* lines 169-170 with the two names exchanged
jsonData_swapped(reponame, assetRegex, isWildcard, dryRun) ==
    [repoName   |-> assetRegex,
     assetRegex |-> reponame,
     isWildcard |-> IF isWildcard \in {"True", "False"}
                    THEN isWildcard = "True"
                    ELSE AssetMatchOptionsIsWildcard(isWildcard),
     dryRun     |-> dryRun]

\* lines 168-172: the dict sent to the script.  A Python bool goes as it is.
jsonData(reponame, assetRegex, isWildcard, dryRun) ==
    [repoName   |-> reponame,
     assetRegex |-> assetRegex,
     isWildcard |-> IF isWildcard \in {"True", "False"}
                    THEN isWildcard = "True"
                    ELSE AssetMatchOptionsIsWildcard(isWildcard),
     dryRun     |-> dryRun]

\* scripts.delete(name): removes the script, a missing one is no error
scripts_delete(store) == NoScript

\* scripts.create_if_missing(name, content): installs only when none is there
scripts_create_if_missing(store, content) == IF store = NoScript THEN content ELSE store

\* the stored script after the operations seq; scripts.run executes what is
\* stored and leaves it alone
RECURSIVE ScriptsAfter(_, _)
ScriptsAfter(store, seq) ==
    IF seq = <<>>
    THEN store
    ELSE ScriptsAfter(
            CASE seq[1][1] = "delete" -> scripts_delete(store)
              [] seq[1][1] = "create_if_missing" ->
                    scripts_create_if_missing(store, groovy_script(seq[1][2]))
              [] OTHER -> store,
            Tail(seq))

\* the operations of repositories.delete (lines 146-148) under this script's
\* name: install if missing, then run
ScriptOps_install_if_missing ==
    << <<"create_if_missing", SCRIPT_NAME_DELETE_ASSETS>>,
       <<"run", SCRIPT_NAME_DELETE_ASSETS>> >>

\* lines 163-165 and 173: the scripts.* operations of one call, in order
ScriptOps ==
    << <<"delete", SCRIPT_NAME_DELETE_ASSETS>>,
       <<"create_if_missing", SCRIPT_NAME_DELETE_ASSETS>>,
       <<"run", SCRIPT_NAME_DELETE_ASSETS>> >>

\* the call delete_assets(args...) starts and blocks in scripts.run; sofar is
\* what the command has done up to the call
delete_assets_call(args, sofar) ==
    /\ calls' = Append(calls,
                  [reponame       |-> args.reponame,
                   assetRegex     |-> args.assetRegex,
                   isWildcard     |-> args.isWildcard,
                   dryRun         |-> args.dryRun,
                   wire           |-> json_dumps(jsonData(args.reponame,
                                        args.assetRegex, args.isWildcard, args.dryRun)),
                   script         |-> ScriptsAfter(scripts, ScriptOps),
                   contentsBefore |-> {},
                   server         |-> "pending",
                   outcome        |-> Pending])
    /\ ops' = sofar \o ScriptOps
    /\ scripts' = ScriptsAfter(scripts, ScriptOps)

\* the service answers with a, and delete_assets returns or raises
delete_assets_return(a) ==
    /\ resp' = a.raw
    /\ repo' = a.contentsAfter
    /\ calls' = [calls EXCEPT ![Len(calls)] =
                    [@ EXCEPT !.contentsBefore = repo,
                              !.server = a.server,
                              !.outcome = ParseResponse(a.raw)]]

(***************************************************************************)
(* _cmd_del_assets, of root_commands.py (cmd = delete) and of              *)
(* subcommand_repository.py (the two del_assets_* subcommands).            *)
(***************************************************************************)
IsRoot == argv.cmd = "delete"

\* the first call made with dryRun False
PreviewArgs_not_dry ==
    [reponame |-> argv.repoName, assetRegex |-> argv.pattern,
     isWildcard |-> match, dryRun |-> FALSE]

\* the arguments of the two delete_assets calls
PreviewArgs ==
    [reponame |-> argv.repoName, assetRegex |-> argv.pattern,
     isWildcard |-> match, dryRun |-> TRUE]

\* the real call with repoName and assetName in the wrong order
DeleteArgs_swapped ==
    [reponame |-> argv.pattern, assetRegex |-> argv.repoName,
     isWildcard |-> match, dryRun |-> FALSE]

\* the real call made with the default match option, not the command's
DeleteArgs_default_match ==
    [reponame |-> argv.repoName, assetRegex |-> argv.pattern,
     isWildcard |-> IF IsRoot THEN "EXACT_NAME" ELSE "False", dryRun |-> FALSE]

\* root_commands.py lines 171-172, subcommand_repository.py line 152
DeleteArgs ==
    [reponame |-> argv.repoName, assetRegex |-> argv.pattern,
     isWildcard |-> match, dryRun |-> FALSE]

\* root_after_preview without the test of line 162
root_after_preview_no_zero_check(o) ==
    IF o.kind = "raise"
    THEN IF o.exc = "NexusClientAPIError"
         THEN [ret |-> Returned("API_ERROR"), out |-> "Error while running API"]
         ELSE [ret |-> Raised(o.exc), out |-> ""]
    ELSE [ret |-> Running, out |-> "Found N matching assets"]

\* root_after_preview reporting the error of the preview and going on
root_after_preview_goes_on(o) ==
    IF o.kind = "raise"
    THEN [ret |-> Running, out |-> "Error while running API"]
    ELSE IF Len(o.value.items) = 0
    THEN [ret |-> Returned("SUCCESS"), out |-> "Found 0 matching assets: aborting delete"]
    ELSE [ret |-> Running, out |-> "Found N matching assets"]

\* root_commands.py lines 154-169: how the preview's outcome o ends the
\* run (Running: the run goes on to the prompt)
root_after_preview(o) ==
    IF o.kind = "raise"
    THEN IF o.exc = "NexusClientAPIError"
         THEN [ret |-> Returned("API_ERROR"), out |-> "Error while running API"]
         ELSE [ret |-> Raised(o.exc), out |-> ""]
    ELSE IF Len(o.value.items) = 0
    THEN [ret |-> Returned("SUCCESS"), out |-> "Found 0 matching assets: aborting delete"]
    ELSE [ret |-> Running, out |-> "Found N matching assets"]

\* repository_after_preview without the test of line 144
repository_after_preview_no_zero_check(o) ==
    IF o.kind = "raise"
    THEN [ret |-> Raised(o.exc), out |-> ""]
    ELSE [ret |-> Running, out |-> "Found N matching assets"]

\* subcommand_repository.py lines 143-150
repository_after_preview(o) ==
    IF o.kind = "raise"
    THEN [ret |-> Raised(o.exc), out |-> ""]
    ELSE IF Len(o.value.items) = 0
    THEN [ret |-> Returned("SUCCESS"), out |-> "Found 0 matching assets: aborting delete"]
    ELSE [ret |-> Running, out |-> "Found N matching assets"]

\* the real call wrapped in a handler that reports and returns SUCCESS
root_after_delete_swallows(o) ==
    IF o.kind = "raise"
    THEN [ret |-> Returned("SUCCESS"), out |-> "Error while running API"]
    ELSE IF Len(o.value.items) = 0
    THEN [ret |-> Returned("SUCCESS"), out |-> "Deleted 0 files"]
    ELSE [ret |-> Returned("SUCCESS"), out |-> "Deleted N matching assets"]

\* root_after_delete answering an empty deletion with NO_FILES
root_after_delete_no_files(o) ==
    IF o.kind = "raise"
    THEN [ret |-> Raised(o.exc), out |-> ""]
    ELSE IF Len(o.value.items) = 0
    THEN [ret |-> Returned("NO_FILES"), out |-> "Deleted 0 files"]
    ELSE [ret |-> Returned("SUCCESS"), out |-> "Deleted N matching assets"]

\* root_commands.py lines 171-181
root_after_delete(o) ==
    IF o.kind = "raise"
    THEN [ret |-> Raised(o.exc), out |-> ""]
    ELSE IF Len(o.value.items) = 0
    THEN [ret |-> Returned("SUCCESS"), out |-> "Deleted 0 files"]
    ELSE [ret |-> Returned("SUCCESS"), out |-> "Deleted N matching assets"]

\* subcommand_repository.py lines 152-158
repository_after_delete(o) ==
    IF o.kind = "raise"
    THEN [ret |-> Raised(o.exc), out |-> ""]
    ELSE IF Len(o.value.items) = 0
    THEN [ret |-> Returned("SUCCESS"), out |-> "Found 0 matching assets: aborting delete"]
    ELSE [ret |-> Returned("SUCCESS"), out |-> "Deleted N matching assets"]

\* util.input_with_default('Press ENTER to confirm deletion', ...): called,
\* returned, or left by ctrl+c
PromptCalled == <<"input_with_default", "called">>
PromptReturned == <<"input_with_default", "returned">>
PromptInterrupted == <<"input_with_default", "KeyboardInterrupt">>

Write(msg) == IF msg = "" THEN out' = out ELSE out' = Append(out, msg)

\* Preview entered whatever doForce is
Preview_ignores_force ==
    /\ pc = "Idle"
    /\ delete_assets_call(PreviewArgs, ops)
    /\ out' = Append(out, "Retrieving assets matching")
    /\ pc' = "Previewing"
    /\ UNCHANGED <<argv, match, resp, repo, prompts, answers, ret>>

\* not doForce: the preview call is made
Preview ==
    /\ pc = "Idle"
    /\ ~argv.force
    /\ delete_assets_call(PreviewArgs, ops)
    /\ out' = Append(out, "Retrieving assets matching")
    /\ pc' = "Previewing"
    /\ UNCHANGED <<argv, match, resp, repo, prompts, answers, ret>>

\* the preview call ends; on an empty or failed preview the command starts
\* over instead of returning
PreviewDone_starts_over ==
    /\ pc = "Previewing"
    /\ \E a \in ServerAnswers(repo, calls[Len(calls)].wire) :
          LET o == ParseResponse(a.raw)
              next == IF IsRoot THEN root_after_preview(o)
                      ELSE repository_after_preview(o)
          IN  IF next.ret = Running
              THEN /\ delete_assets_return(a)
                   /\ Write(next.out)
                   /\ ret' = next.ret
                   /\ pc' = "AwaitingConfirmation"
                   /\ prompts' = prompts + 1
                   /\ ops' = Append(ops, PromptCalled)
              ELSE /\ repo' = a.contentsAfter
                   /\ calls' = <<>>
                   /\ ops' = <<>>
                   /\ out' = <<>>
                   /\ pc' = "Idle"
                   /\ UNCHANGED <<resp, ret, prompts>>
    /\ UNCHANGED <<argv, match, scripts, answers>>

\* the preview call ends; the run stops, or shows the matches and the prompt
PreviewDone ==
    /\ pc = "Previewing"
    /\ \E a \in ServerAnswers(repo, calls[Len(calls)].wire) :
          LET o == ParseResponse(a.raw)
              next == IF IsRoot THEN root_after_preview(o)
                      ELSE repository_after_preview(o)
          IN  /\ delete_assets_return(a)
              /\ Write(next.out)
              /\ ret' = next.ret
              /\ IF next.ret = Running
                 THEN /\ pc' = "AwaitingConfirmation"
                      /\ prompts' = prompts + 1
                      /\ ops' = Append(ops, PromptCalled)
                 ELSE /\ pc' = "Done"
                      /\ UNCHANGED <<prompts, ops>>
    /\ UNCHANGED <<argv, match, scripts, answers>>

\* the answer is read as yes/no: only a bare ENTER goes on to the real call,
\* any other text ends the command
Confirm_parses_answer ==
    /\ pc = "AwaitingConfirmation"
    /\ \E typed \in Answers :
          /\ answers' = Append(answers, typed)
          /\ IF typed = ""
             THEN /\ delete_assets_call(DeleteArgs, Append(ops, PromptReturned))
                  /\ resp' = NoResponse
                  /\ pc' = "Deleting"
                  /\ UNCHANGED ret
             ELSE /\ ops' = Append(ops, PromptReturned)
                  /\ ret' = Returned("SUCCESS")
                  /\ pc' = "Done"
                  /\ UNCHANGED <<calls, scripts, resp>>
    /\ UNCHANGED <<argv, match, repo, prompts, out>>

\* util.input_with_default returns what was typed; the value is dropped and
\* the real call is made
Confirm ==
    /\ pc = "AwaitingConfirmation"
    /\ \E typed \in Answers : answers' = Append(answers, typed)
    /\ delete_assets_call(DeleteArgs, Append(ops, PromptReturned))
    /\ resp' = NoResponse
    /\ pc' = "Deleting"
    /\ UNCHANGED <<argv, match, repo, prompts, out, ret>>

\* ctrl+c at the prompt: input_with_default does not return
Interrupt ==
    /\ pc \in {"AwaitingConfirmation", "AwaitingRepositoryConfirmation"}
    /\ ops' = Append(ops, PromptInterrupted)
    /\ ret' = Interrupted
    /\ pc' = "Aborted"
    /\ UNCHANGED <<argv, match, calls, resp, repo, scripts, prompts, answers, out>>

\* doForce: the real call is made at once
ForcedDelete ==
    /\ pc = "Idle"
    /\ argv.force
    /\ delete_assets_call(DeleteArgs, ops)
    /\ pc' = "Deleting"
    /\ UNCHANGED <<argv, match, resp, repo, prompts, answers, out, ret>>

\* the real call ends, and the run with it
DeleteDone ==
    /\ pc = "Deleting"
    /\ \E a \in ServerAnswers(repo, calls[Len(calls)].wire) :
          LET o == ParseResponse(a.raw)
              next == IF IsRoot THEN root_after_delete(o)
                      ELSE repository_after_delete(o)
          IN  /\ delete_assets_return(a)
              /\ Write(next.out)
              /\ ret' = next.ret
    /\ pc' = "Done"
    /\ UNCHANGED <<argv, match, ops, scripts, prompts, answers>>

(***************************************************************************)
(* subcommand_repository.cmd_delete (nexus3 repository delete), with       *)
(* RepositoryCollection.delete                                             *)
(***************************************************************************)
SCRIPT_NAME_DELETE == "nexus3-cli-repository-delete"

\* collection.py lines 146-148: the scripts.* operations of repositories.delete
RepositoryDeleteOps ==
    << <<"create_if_missing", SCRIPT_NAME_DELETE>>,
       <<"run", SCRIPT_NAME_DELETE>> >>

\* cmd_delete calling repositories.delete whatever --force is
repository_cmd_delete_no_prompt ==
    /\ pc = "Args"
    /\ argv.cmd = "repository delete"
    /\ ops' = ops \o RepositoryDeleteOps
    /\ pc' = "DeletingRepository"
    /\ UNCHANGED <<argv, match, calls, resp, repo, scripts, prompts, answers, out, ret>>

\* lines 131-134: the prompt unless --force, then repositories.delete
repository_cmd_delete ==
    /\ pc = "Args"
    /\ argv.cmd = "repository delete"
    /\ IF ~argv.force
       THEN /\ prompts' = prompts + 1
            /\ ops' = Append(ops, PromptCalled)
            /\ pc' = "AwaitingRepositoryConfirmation"
       ELSE /\ ops' = ops \o RepositoryDeleteOps
            /\ pc' = "DeletingRepository"
            /\ UNCHANGED prompts
    /\ UNCHANGED <<argv, match, calls, resp, repo, scripts, answers, out, ret>>

\* lines 132-134: the prompt returns, repositories.delete is called
repository_delete_confirm ==
    /\ pc = "AwaitingRepositoryConfirmation"
    /\ \E typed \in Answers : answers' = Append(answers, typed)
    /\ ops' = Append(ops, PromptReturned) \o RepositoryDeleteOps
    /\ pc' = "DeletingRepository"
    /\ UNCHANGED <<argv, match, calls, resp, repo, scripts, prompts, out, ret>>

\* lines 134-135: scripts.run returns (the repository and its assets are
\* gone) and the command returns SUCCESS, or it fails and the exception
\* leaves the command
repository_delete_done ==
    /\ pc = "DeletingRepository"
    /\ \E deleted \in BOOLEAN :
          IF deleted
          THEN repo' = {} /\ ret' = Returned("SUCCESS")
          ELSE repo' = repo /\ ret' = Raised("NexusClientAPIError")
    /\ pc' = "RepositoryDeleted"
    /\ UNCHANGED <<argv, match, calls, ops, resp, scripts, prompts, answers, out>>

\* another client adds or removes an asset while the run waits at the prompt
Interfere ==
    /\ pc = "AwaitingConfirmation"
    /\ \E p \in Paths : repo' = IF p \in repo THEN repo \ {p} ELSE repo \cup {p}
    /\ UNCHANGED <<pc, argv, match, calls, ops, resp, scripts, prompts, answers, out,
                   ret>>

\* another client, of another version, installs its own deletion script while
\* the run waits at the prompt
InterfereScript ==
    /\ pc = "AwaitingConfirmation"
    /\ scripts # StaleScript
    /\ scripts' = StaleScript
    /\ UNCHANGED <<pc, argv, match, calls, ops, resp, repo, prompts, answers, out, ret>>

Next ==
    \/ cmd_delete
    \/ cmd_del_assets_regex
    \/ cmd_del_assets_wildcard
    \/ Preview
    \/ PreviewDone
    \/ Confirm
    \/ Interrupt
    \/ ForcedDelete
    \/ DeleteDone
    \/ Interfere
    \/ InterfereScript
    \/ repository_cmd_delete
    \/ repository_delete_confirm
    \/ repository_delete_done

Spec == Init /\ [][Next]_vars

\* the steps of the command itself: every blocking call it makes (scripts.run,
\* the prompt) returns or fails, and the single thread then goes on
Progress ==
    \/ cmd_delete
    \/ cmd_del_assets_regex
    \/ cmd_del_assets_wildcard
    \/ Preview
    \/ PreviewDone
    \/ Confirm
    \/ ForcedDelete
    \/ DeleteDone
    \/ repository_cmd_delete
    \/ repository_delete_confirm
    \/ repository_delete_done

\* the runs on one repository and one pattern: the two are only handed on to
\* the payload and take no part in what the command does next
FairInit ==
    /\ Init
    /\ argv.repoName = "releases"
    /\ argv.pattern \in {"/r/a", ""}

FairSpec == FairInit /\ [][Next]_vars /\ WF_vars(Progress)


(***************************************************************************)
(* Properties.                                                             *)
(***************************************************************************)
LastCall == calls[Len(calls)]

\* the latest delete_assets call has ended, and resp is what scripts.run gave it
Answered == Len(calls) > 0 /\ LastCall.outcome.kind # "pending"

\* a response with an inner JSON object
HasInnerObject(r) == r.status = "ok" /\ "result" \in r.keys /\ r.result.kind = "object"

\* the two failures of delete_assets the protocol names.  Both are raised as
\* exception.NexusClientAPIError: the protocol error carries the raw response,
\* the API error carries the script's message or the transport's body.
IsProtocolError(o) ==
    o.kind = "raise" /\ o.exc = "NexusClientAPIError" /\ o.arg = "raw_response"

IsAPIError(o) ==
    o.kind = "raise" /\ o.exc = "NexusClientAPIError" /\ o.arg \in {"message", "body"}

\* C1: in a run without --force whose preview call returns no asset, the run
\* is over: the prompt was never shown and the preview is the only
\* delete_assets call of the run.
C1_ZeroPreviewEndsRun ==
    (/\ ~argv.force
     /\ Len(calls) >= 1
     /\ calls[1].dryRun
     /\ calls[1].outcome = Return(PyList(<<>>)))
    => /\ pc = "Done"
       /\ Len(calls) = 1
       /\ \A i \in DOMAIN calls : calls[i].dryRun
       /\ prompts = 0
       /\ answers = <<>>

C1_Witness ==
    /\ ~argv.force
    /\ pc = "Done"
    /\ Len(calls) = 1
    /\ calls[1].dryRun
    /\ calls[1].outcome = Return(PyList(<<>>))

\* C2: in a run with --force no preview call (dryRun=true) is ever made and
\* the prompt is never shown; once the run has left Idle it has made exactly
\* one delete_assets call, with dryRun=false on the wire.
C2_ForcedRunOnlyDeletes ==
    argv.force
    => /\ prompts = 0
       /\ answers = <<>>
       /\ Len(calls) <= 1
       /\ \A i \in DOMAIN calls :
             ~calls[i].dryRun /\ ~DecodePayload(calls[i].wire).dryRun
       /\ pc \in {"Deleting", "Done"} => Len(calls) = 1

C2_Witness ==
    /\ argv.force
    /\ pc = "Done"
    /\ Len(calls) = 1
    /\ ~calls[1].dryRun
    /\ calls[1].outcome.kind = "return"

\* C3: when the answer of scripts.run has no `result` key, delete_assets
\* raises the protocol error (NexusClientAPIError with the raw response); it
\* returns no list.
C3_NoResultIsProtocolError ==
    (Answered /\ resp.status = "ok" /\ "result" \notin resp.keys)
    => /\ IsProtocolError(LastCall.outcome)
       /\ LastCall.outcome.kind # "return"

C3_Witness ==
    /\ Answered
    /\ resp = RawWithoutResult
    /\ IsProtocolError(LastCall.outcome)

\* the responses whose inner object has `assets` present, as null or as []
EmptyAssetsResponses ==
    {RawWithResult(InnerObject(s, e, a)) :
        s \in {<<>>} \cup {<<x>> : x \in SuccessLits},
        e \in {<<>>} \cup {<<x>> : x \in ErrorTexts},
        a \in {<<AssetsNull>>, <<AssetsList(<<>>)>>}}

\* C4: when the inner JSON object has no `assets` key, delete_assets raises
\* the protocol error and returns no list; and that outcome is the outcome of
\* no response whose `assets` is present as null or as [].
C4_NoAssetsKeyIsProtocolError ==
    (Answered /\ HasInnerObject(resp) /\ resp.result.assets = <<>>)
    => /\ IsProtocolError(LastCall.outcome)
       /\ LastCall.outcome.kind # "return"
       /\ \A r \in EmptyAssetsResponses : ParseResponse(r) # LastCall.outcome

C4_Witness ==
    /\ Answered
    /\ HasInnerObject(resp)
    /\ resp.result.assets = <<>>
    /\ resp.result.success = <<>>
    /\ IsProtocolError(LastCall.outcome)


C6_NullAssetsIsEmptyList ==
    (/\ Answered
     /\ HasInnerObject(resp)
     /\ resp.result.assets = <<AssetsNull>>
     /\ resp.result.success # <<"false">>)
    => /\ LastCall.outcome.kind = "return"
       /\ ~LastCall.outcome.value.isNull
       /\ LastCall.outcome.value.items = <<>>

C6_Witness ==
    /\ Answered
    /\ HasInnerObject(resp)
    /\ resp.result.assets = <<AssetsNull>>
    /\ resp.result.success = <<>>
    /\ LastCall.outcome = Return(PyList(<<>>))

\* C7: when the inner JSON has `success` true or absent and `assets` a list,
\* delete_assets returns that list, element for element, whatever the call's
\* repository, pattern, mode and dryRun.
C7_ListReturnedAsIs ==
    (/\ Answered
     /\ HasInnerObject(resp)
     /\ resp.result.success \in {<<>>, <<"true">>}
     /\ resp.result.assets # <<>>
     /\ ~resp.result.assets[1].isNull)
    => LastCall.outcome = Return(PyList(resp.result.assets[1].items))

\* a list out of order with a repeated element comes back unchanged
C7_Witness ==
    /\ Answered
    /\ HasInnerObject(resp)
    /\ resp.result.success = <<"true">>
    /\ resp.result.assets = <<AssetsList(<<"/r/b", "/r/b">>)>>
    /\ LastCall.outcome.value.items = <<"/r/b", "/r/b">>

\* C8: when the preview call is answered by the script with N >= 1 assets and
\* the repository holds the same assets when the real call is executed, the
\* real call carries the same repository, pattern and mode and the script
\* answers it with the same N assets (in any order).
C8_RealRunMatchesPreview ==
    (/\ Len(calls) = 2
     /\ Answered
     /\ calls[1].dryRun
     /\ calls[1].server = "script"
     /\ calls[2].server = "script"
     /\ Len(calls[1].outcome.value.items) >= 1
     /\ calls[1].contentsBefore = calls[2].contentsBefore)
    => /\ ~calls[2].dryRun
       /\ calls[2].reponame = calls[1].reponame
       /\ calls[2].assetRegex = calls[1].assetRegex
       /\ calls[2].isWildcard = calls[1].isWildcard
       /\ calls[2].outcome.kind = "return"
       /\ Range(calls[2].outcome.value.items) = Range(calls[1].outcome.value.items)
       /\ Len(calls[2].outcome.value.items) = Len(calls[1].outcome.value.items)

C8_Witness ==
    /\ Len(calls) = 2
    /\ Answered
    /\ calls[1].server = "script"
    /\ calls[2].server = "script"
    /\ calls[1].contentsBefore = calls[2].contentsBefore
    /\ calls[1].outcome.value.items = <<"/r/a", "/r/b">>
    /\ calls[2].outcome.value.items = <<"/r/b", "/r/a">>
    /\ repo = {}

\* a DeletionRequest, and how the commands hand its mode to delete_assets
MatchModes == {"ExactName", "Wildcard", "Regex"}

Requests ==
    [repositoryName : RepoNames, pattern : Patterns, mode : MatchModes,
     dryRun : BOOLEAN]

ModeArg(mode) ==
    CASE mode = "Wildcard" -> "WILDCARD"
      [] mode = "Regex"    -> "REGEX"
      [] OTHER             -> "EXACT_NAME"

ModeOf(isWildcard) ==
    CASE isWildcard \in {"WILDCARD", "True"} -> "Wildcard"
      [] isWildcard \in {"REGEX", "False"}   -> "Regex"
      [] OTHER                               -> "ExactName"

Serialize(r) ==
    json_dumps(jsonData(r.repositoryName, r.pattern, ModeArg(r.mode), r.dryRun))

RequestOf(call) ==
    [repositoryName |-> call.reponame, pattern |-> call.assetRegex,
     mode |-> ModeOf(call.isWildcard), dryRun |-> call.dryRun]

AnyCallFailed == \E i \in DOMAIN calls : calls[i].outcome.kind = "raise"

APIOrProtocolFailure ==
    \E i \in DOMAIN calls :
        IsAPIError(calls[i].outcome) \/ IsProtocolError(calls[i].outcome)

\* the command ended by itself: _cmd_del_assets returned, or an exception
\* left it
RunEnded == pc = "Done" /\ ret.kind \in {"returned", "raised"}

\* C10: a run of _cmd_del_assets that ended with no failed delete_assets call
\* exits with 0 (also with zero preview matches or zero deleted assets); as
\* soon as a delete_assets call, preview or real, has failed with an API or
\* protocol error the run has ended, and its exit code is not 0.
C10_ExitCode ==
    /\ (RunEnded /\ ~AnyCallFailed) => ExitCode(ret) = 0
    /\ APIOrProtocolFailure => (RunEnded /\ ExitCode(ret) # 0)

\* the real deletion fails after a preview that went well
C10_Witness ==
    /\ RunEnded
    /\ Len(calls) = 2
    /\ calls[1].outcome.kind = "return"
    /\ IsProtocolError(calls[2].outcome)
    /\ ExitCode(ret) # 0

\* C11: every delete_assets call of a run of cmd_delete carries one match
\* option: WILDCARD iff only --wildcard is set, REGEX iff only --regex is set,
\* EXACT_NAME iff neither is set; with both flags set the command has made no
\* delete_assets call and, once it has read its arguments, has returned the
\* invalid-arguments code.
C11_OneMatchMode ==
    argv.cmd = "delete"
    => /\ \A i \in DOMAIN calls :
             /\ calls[i].isWildcard \in {"WILDCARD", "REGEX", "EXACT_NAME"}
             /\ (calls[i].isWildcard = "WILDCARD") <=> (argv.wildcard /\ ~argv.regex)
             /\ (calls[i].isWildcard = "REGEX") <=> (argv.regex /\ ~argv.wildcard)
             /\ (calls[i].isWildcard = "EXACT_NAME") <=> (~argv.regex /\ ~argv.wildcard)
       /\ (argv.wildcard /\ argv.regex)
             => /\ calls = <<>>
                /\ ops = <<>>
                /\ pc \in {"Args", "Rejected"}
                /\ pc = "Rejected"
                      => /\ ret = Returned("INVALID_SUBCOMMAND")
                         /\ ExitCode(ret) # 0

\* a run with --regex only that made both calls
C11_Witness ==
    /\ argv.cmd = "delete"
    /\ argv.regex
    /\ ~argv.wildcard
    /\ pc = "Done"
    /\ Len(calls) = 2
    /\ calls[1].isWildcard = "REGEX"
    /\ calls[2].isWildcard = "REGEX"

\* the destructive remote calls of the run so far: delete_assets with
\* dryRun=false, and scripts.run of the repository deletion script
RealDeleteCalls == {i \in DOMAIN calls : ~calls[i].dryRun}

RepositoryDeleteRuns == {i \in DOMAIN ops : ops[i] = <<"run", SCRIPT_NAME_DELETE>>}

DryRunStarts ==
    /\ Len(calls') = Len(calls) + 1
    /\ calls'[Len(calls')].dryRun

DryRunAnswered ==
    /\ Len(calls) > 0
    /\ Len(calls') = Len(calls)
    /\ LastCall.dryRun
    /\ LastCall.outcome = Pending
    /\ calls'[Len(calls')].outcome # Pending

\* C13 as claimed: no step of a dryRun=true invocation changes the state of
\* the service, its assets and its stored script.
C13_Original ==
    [][(DryRunStarts \/ DryRunAnswered) => (repo' = repo /\ scripts' = scripts)]_vars

\* C13, amended: no step of a dryRun=true invocation changes the assets of
\* the repository; of the state of the service it changes at most the stored
\* deletion script, which is the shipped body once the call has started.
C13_DryRunKeepsAssets ==
    [][/\ (DryRunStarts \/ DryRunAnswered) => repo' = repo
       /\ DryRunStarts => scripts' = groovy_script(SCRIPT_NAME_DELETE_ASSETS)
       /\ DryRunAnswered => scripts' = scripts]_vars

\* the script has answered a dry run with both assets, which are still there;
\* the script another version had left on the service was replaced
C13_Witness ==
    /\ pc = "AwaitingConfirmation"
    /\ Len(calls) = 1
    /\ calls[1].dryRun
    /\ calls[1].server = "script"
    /\ calls[1].contentsBefore = {"/r/a", "/r/b"}
    /\ Range(calls[1].outcome.value.items) = {"/r/a", "/r/b"}
    /\ repo = {"/r/a", "/r/b"}
    /\ scripts = groovy_script(SCRIPT_NAME_DELETE_ASSETS)
    /\ ops = ScriptOps \o <<PromptCalled>>

\* where in ops the operation op stands, and the k-th of a set of positions
OpPositions(op) == {i \in DOMAIN ops : ops[i] = op}

NthPosition(S, k) == CHOOSE i \in S : Cardinality({j \in S : j <= i}) = k

\* where in ops the k-th delete_assets call starts (its first scripts.* call)
DeleteAssetsStart(k) == NthPosition(OpPositions(ScriptOps[1]), k)

\* where in ops the destructive remote calls start: delete_assets with
\* dryRun=false, and repositories.delete
DestructiveStarts ==
    {DeleteAssetsStart(k) : k \in RealDeleteCalls}
    \cup OpPositions(RepositoryDeleteOps[1])

IsRepositoryCommand ==
    argv.cmd \in {"repository delete", "del_assets_regex", "del_assets_wildcard"}

\* C14: in a run of repository delete, del_assets_regex or del_assets_wildcard
\* with --force the prompt is never called; without --force every destructive
\* remote call (repositories.delete, delete_assets with dryRun=false) starts
\* after the prompt has returned.
C14_ForceAndPromptOrder ==
    IsRepositoryCommand
    => /\ argv.force
             => /\ prompts = 0
                /\ answers = <<>>
                /\ OpPositions(PromptCalled) = {}
       /\ ~argv.force
             => \A d \in DestructiveStarts :
                   \E p \in OpPositions(PromptReturned) : p < d

\* repository delete without --force: prompt, answer, then the deletion
C14_Witness ==
    /\ argv.cmd = "repository delete"
    /\ ~argv.force
    /\ pc = "RepositoryDeleted"
    /\ ret = Returned("SUCCESS")
    /\ ops = <<PromptCalled, PromptReturned>> \o RepositoryDeleteOps
    /\ repo = {}

\* the states of the deletion workflow and the transitions it is given
WorkflowStates == {"Idle", "Previewing", "AwaitingConfirmation", "Deleting", "Done"}

WorkflowTransitions ==
    {<<"Idle", "Previewing">>, <<"Previewing", "AwaitingConfirmation">>,
     <<"AwaitingConfirmation", "Deleting">>, <<"Deleting", "Done">>,
     <<"Previewing", "Done">>, <<"Idle", "Deleting">>}

\* the run made its real call after a preview that returned assets and one
\* prompt that returned, in that order
ConfirmedAfterPreview ==
    /\ Len(calls) = 2
    /\ calls[1].dryRun
    /\ calls[1].outcome.kind = "return"
    /\ Len(calls[1].outcome.value.items) >= 1
    /\ ~calls[2].dryRun
    /\ prompts = 1
    /\ Len(answers) = 1
    /\ ops = ScriptOps \o <<PromptCalled, PromptReturned>> \o ScriptOps

\* C15: a run of the workflow changes state only along Idle -> Previewing ->
\* AwaitingConfirmation -> Deleting -> Done, Previewing -> Done and, when
\* forced and only then, Idle -> Deleting (or it is stopped by an interrupt
\* at the prompt, which is no transition of the workflow); and whenever a
\* delete_assets call with dryRun=false has been made, the run is forced or
\* a dryRun=true call returned at least one asset before it and the prompt
\* was then shown once and returned.
C15_WorkflowTransitions ==
    /\ [](RealDeleteCalls # {} => (argv.force \/ ConfirmedAfterPreview))
    /\ [][(pc \in WorkflowStates /\ pc' # pc)
            => /\ \/ <<pc, pc'>> \in WorkflowTransitions
                  \/ (pc = "AwaitingConfirmation" /\ ret' = Interrupted)
               /\ (pc = "Idle" /\ pc' = "Deleting") <=> (pc = "Idle" /\ argv.force)
               /\ (pc = "Previewing" /\ pc' = "AwaitingConfirmation")
                     => /\ calls'[1].outcome.kind = "return"
                        /\ Len(calls'[1].outcome.value.items) >= 1]_vars

\* del_assets_wildcard without --force, confirmed with a bare ENTER
C15_Witness ==
    /\ argv.cmd = "del_assets_wildcard"
    /\ ~argv.force
    /\ pc = "Done"
    /\ ConfirmedAfterPreview
    /\ answers = <<"">>
    /\ calls[2].outcome.kind = "return"

\* the scripts.* operations of the run on the asset deletion script, in order
IsDeleteAssetsScriptOp(op) ==
    op[1] \in {"delete", "create_if_missing", "run"} /\ op[2] = SCRIPT_NAME_DELETE_ASSETS

DeleteAssetsScriptOps == SelectSeq(ops, IsDeleteAssetsScriptOp)

\* C16: the k-th delete_assets call of a run, dry or real, stands in the log
\* as scripts.delete, scripts.create_if_missing, scripts.run of the deletion
\* script, next to each other and in that order, with one scripts.run per
\* call; whatever the service held before the call the first two leave the
\* shipped body there, and that is the script the call runs (it is what the
\* service holds while the call is in scripts.run).
C16_ReinstallThenRun ==
    /\ Len(DeleteAssetsScriptOps) = 3 * Len(calls)
    /\ Cardinality(OpPositions(<<"run", SCRIPT_NAME_DELETE_ASSETS>>)) = Len(calls)
    /\ \A k \in DOMAIN calls :
          LET start == DeleteAssetsStart(k) IN
          /\ SubSeq(DeleteAssetsScriptOps, 3 * k - 2, 3 * k)
                = << <<"delete", SCRIPT_NAME_DELETE_ASSETS>>,
                     <<"create_if_missing", SCRIPT_NAME_DELETE_ASSETS>>,
                     <<"run", SCRIPT_NAME_DELETE_ASSETS>> >>
          /\ SubSeq(ops, start, start + 2)
                = SubSeq(DeleteAssetsScriptOps, 3 * k - 2, 3 * k)
          /\ \A store \in ScriptStores :
                ScriptsAfter(store, SubSeq(ops, start, start + 1))
                  = groovy_script(SCRIPT_NAME_DELETE_ASSETS)
          /\ calls[k].script = groovy_script(SCRIPT_NAME_DELETE_ASSETS)
    /\ (calls # <<>> /\ LastCall.outcome = Pending)
          => scripts = groovy_script(SCRIPT_NAME_DELETE_ASSETS)

\* the real call of a confirmed run is blocked in scripts.run, running the
\* shipped body
C16_Witness ==
    /\ pc = "Deleting"
    /\ ~argv.force
    /\ Len(calls) = 2
    /\ calls[2].outcome = Pending
    /\ calls[2].script = groovy_script(SCRIPT_NAME_DELETE_ASSETS)
    /\ Len(DeleteAssetsScriptOps) = 6

\* the request a command issues for its k-th call, read off the command
\* line: the mode of the subcommand or of the flags, dryRun for the preview
CommandMode ==
    CASE argv.cmd = "del_assets_wildcard" -> "Wildcard"
      [] argv.cmd = "del_assets_regex"    -> "Regex"
      [] argv.wildcard                    -> "Wildcard"
      [] argv.regex                       -> "Regex"
      [] OTHER                            -> "ExactName"

CommandRequest(k) ==
    [repositoryName |-> argv.repoName, pattern |-> argv.pattern,
     mode |-> CommandMode, dryRun |-> (~argv.force /\ k = 1)]

C18_SameRequestButDryRun ==
    (~argv.force /\ RealDeleteCalls # {})
    => /\ Len(calls) = 2
       /\ calls[1].dryRun
       /\ ~calls[2].dryRun
       /\ calls[2].reponame = calls[1].reponame
       /\ calls[2].assetRegex = calls[1].assetRegex
       /\ calls[2].isWildcard = calls[1].isWildcard
       /\ Len(calls[2].wire) = Len(calls[1].wire)
       /\ \A i \in DOMAIN calls[1].wire :
             \/ calls[2].wire[i] = calls[1].wire[i]
             \/ /\ calls[1].wire[i] = <<"dryRun", "literal", "true">>
                /\ calls[2].wire[i] = <<"dryRun", "literal", "false">>
       /\ DecodePayload(calls[1].wire).dryRun
       /\ ~DecodePayload(calls[2].wire).dryRun

\* nexus3 delete --wildcard, confirmed: both calls carry WILDCARD
C18_Witness ==
    /\ argv.cmd = "delete"
    /\ ~argv.force
    /\ Len(calls) = 2
    /\ calls[1].isWildcard = "WILDCARD"
    /\ calls[2].isWildcard = "WILDCARD"
    /\ calls[1].assetRegex = "/r/%"
    /\ calls[2].assetRegex = "/r/%"
    /\ DecodePayload(calls[2].wire) = [DecodePayload(calls[1].wire) EXCEPT !.dryRun = FALSE]
    /\ DecodePayload(calls[1].wire).isWildcard

\* C19: a run makes at most one delete_assets call with dryRun=true and at
\* most one with dryRun=false; the log holds one scripts.run of the deletion
\* script per call; and every call but the latest has returned, so that no
\* call follows a failed one, and a run with a failed call is over.
C19_NoRetry ==
    /\ Cardinality({i \in DOMAIN calls : calls[i].dryRun}) <= 1
    /\ Cardinality(RealDeleteCalls) <= 1
    /\ Cardinality(OpPositions(<<"run", SCRIPT_NAME_DELETE_ASSETS>>)) = Len(calls)
    /\ \A i \in DOMAIN calls : i < Len(calls) => calls[i].outcome.kind = "return"
    /\ AnyCallFailed
          => /\ LastCall.outcome.kind = "raise"
             /\ pc = "Done"
             /\ ~ENABLED Next

\* nexus3 delete: the preview failed and the run ended with that one call
C19_Witness ==
    /\ argv.cmd = "delete"
    /\ ~argv.force
    /\ pc = "Done"
    /\ Len(calls) = 1
    /\ calls[1].dryRun
    /\ calls[1].outcome = Raise("NexusClientAPIError", "body", "")
    /\ ret = Returned("API_ERROR")
    /\ prompts = 0

\* what a run reports when it succeeded
SuccessReports ==
    {"Found 0 matching assets: aborting delete", "Deleted 0 files",
     "Deleted N matching assets"}

\* the first call of the run that failed
FirstFailure ==
    CHOOSE i \in DOMAIN calls :
        /\ calls[i].outcome.kind = "raise"
        /\ \A j \in 1..(i - 1) : calls[j].outcome.kind # "raise"

\* the outcome of a run in Done: a success report and SUCCESS when no call
\* failed; else the error of the first failed call, as the exception leaving
\* the command or, for the preview of nexus3 delete, as the error message
\* and API_ERROR
DoneOutcome ==
    IF ~AnyCallFailed
    THEN /\ ret = Returned("SUCCESS")
         /\ out # <<>>
         /\ out[Len(out)] \in SuccessReports
    ELSE LET e == calls[FirstFailure].outcome IN
         \/ ret = Raised(e.exc)
         \/ /\ IsRoot
            /\ calls[FirstFailure].dryRun
            /\ e.exc = "NexusClientAPIError"
            /\ ret = Returned("API_ERROR")
            /\ out[Len(out)] = "Error while running API"

\* C20: when every scripts.run returns or fails and the prompt returns (the
\* run is not interrupted there), a run of the workflow that is in Idle
\* reaches Done; and in Done the outcome is a success report or the first
\* error of the run.
C20_ReachesDone ==
    /\ (pc = "Idle") ~> (pc = "Done" \/ ret = Interrupted)
    /\ [](pc = "Done" => DoneOutcome)

\* a confirmed run whose real call failed: Done with that error
C20_Witness ==
    /\ pc = "Done"
    /\ ~argv.force
    /\ Len(calls) = 2
    /\ calls[1].outcome.kind = "return"
    /\ calls[2].outcome = Raise("KeyError", "", "error")
    /\ ret = Raised("KeyError")
    /\ DoneOutcome

\* the call record delete_assets_call makes for the real call
RealCallStarted ==
    [reponame       |-> argv.repoName,
     assetRegex     |-> argv.pattern,
     isWildcard     |-> match,
     dryRun         |-> FALSE,
     wire           |-> json_dumps(jsonData(argv.repoName, argv.pattern, match, FALSE)),
     script         |-> groovy_script(SCRIPT_NAME_DELETE_ASSETS),
     contentsBefore |-> {},
     server         |-> "pending",
     outcome        |-> Pending]

\* C21: in a run of the workflow, once the prompt has returned, whatever was
\* typed, the real call has been made; a run that showed the prompt and has
\* made no dryRun=false call is still waiting at the prompt or was
\* interrupted there; and the step in which the prompt returns makes the real
\* call with the command's own arguments, the same for every text typed.
C21_AnyAnswerProceeds ==
    /\ [](argv.cmd # "repository delete"
            => /\ answers # <<>>
                     => /\ Len(answers) = 1
                        /\ Len(calls) = 2
                        /\ RealDeleteCalls = {2}
                        /\ \E p \in OpPositions(PromptReturned) :
                              SubSeq(ops, p + 1, p + Len(ScriptOps)) = ScriptOps
               /\ (prompts >= 1 /\ RealDeleteCalls = {})
                     => /\ answers = <<>>
                        /\ pc = "AwaitingConfirmation" \/ ret = Interrupted)
    /\ [][(pc = "AwaitingConfirmation" /\ answers' # answers)
            => /\ answers'[Len(answers')] \in Answers
               /\ calls' = Append(calls, RealCallStarted)
               /\ pc' = "Deleting"
               /\ UNCHANGED <<out, ret, repo>>]_vars

\* the user typed "no": the assets were deleted all the same
C21_Witness ==
    /\ answers = <<"no">>
    /\ pc = "Done"
    /\ Len(calls) = 2
    /\ ~calls[2].dryRun
    /\ calls[2].server = "script"
    /\ calls[2].contentsBefore = {"/r/a", "/r/b"}
    /\ Range(calls[2].outcome.value.items) = {"/r/a", "/r/b"}
    /\ repo = {}
    /\ ret = Returned("SUCCESS")

\* the run previewed, was confirmed, and its real call returned
RealRunReturned ==
    /\ pc = "Done"
    /\ Len(calls) = 2
    /\ calls[1].dryRun
    /\ ~calls[2].dryRun
    /\ calls[2].outcome.kind = "return"

\* C22: a confirmed run whose real call returned ends as a success (exit code
\* 0, a report written) whatever list came back, the previewed one or not,
\* empty or not; between the two calls the client made no call but the
\* prompt; and what the script deletes is what matches when the real call
\* runs, shown in the preview or not.
C22_NoRevalidation ==
    RealRunReturned
    => /\ ret = Returned("SUCCESS")
       /\ ExitCode(ret) = 0
       /\ out[Len(out)] \in SuccessReports
       /\ ops = ScriptOps \o <<PromptCalled, PromptReturned>> \o ScriptOps
       /\ calls[2].server = "script"
             => LET d == DecodePayload(calls[2].wire)
                    matched == ServerMatches(calls[2].contentsBefore,
                                             d.assetRegex, d.isWildcard)
                IN  /\ Range(calls[2].outcome.value.items) = matched
                    /\ repo = calls[2].contentsBefore \ matched

\* the preview showed /r/a only; /r/b was added while the run waited at the
\* prompt; the wildcard run deleted both and ended as a success
C22_Witness ==
    /\ RealRunReturned
    /\ argv.cmd = "delete"
    /\ calls[1].server = "script"
    /\ calls[2].server = "script"
    /\ calls[1].outcome.value.items = <<"/r/a">>
    /\ calls[1].contentsBefore = {"/r/a"}
    /\ calls[2].contentsBefore = {"/r/a", "/r/b"}
    /\ Range(calls[2].outcome.value.items) = {"/r/a", "/r/b"}
    /\ repo = {}
    /\ ret = Returned("SUCCESS")

\* the other case of the race: the previewed asset was removed while the run
\* waited, the real call deleted nothing and the run ended as a success
C22_ZeroDeleted ==
    /\ RealRunReturned
    /\ argv.cmd = "delete"
    /\ calls[1].server = "script"
    /\ calls[2].server = "script"
    /\ calls[1].outcome.value.items = <<"/r/a">>
    /\ calls[2].contentsBefore = {}
    /\ calls[2].outcome.value.items = <<>>
    /\ out[Len(out)] = "Deleted 0 files"
    /\ ret = Returned("SUCCESS")

\* the outcome of the malformed response: NexusClientAPIError carrying
\* groovy_returned_json, and no message of the script
MalformedResponse == Raise("NexusClientAPIError", "raw_response", "")

\* C23: the checks of delete_assets run in the order `result`, then inner
\* value not null and with `assets`, then `success`.  A response without
\* `result` is malformed whatever else it holds; an inner JSON that is null,
\* or an object without `assets` (even one with success false and an error
\* message), is malformed too: the error raised carries the raw response, not
\* the script's message; the script's message is raised only when `result`
\* and `assets` are there.
C23_CheckOrder ==
    Answered
    => /\ (resp.status = "ok" /\ "result" \notin resp.keys)
             => LastCall.outcome = MalformedResponse
       /\ (resp.status = "ok" /\ "result" \in resp.keys /\ resp.result.kind = "null")
             => LastCall.outcome = MalformedResponse
       /\ (HasInnerObject(resp) /\ resp.result.assets = <<>>)
             => /\ LastCall.outcome = MalformedResponse
                /\ resp.result.error # <<>>
                      => LastCall.outcome.message # resp.result.error[1]
       /\ (LastCall.outcome.kind = "raise" /\ LastCall.outcome.arg = "message")
             => /\ HasInnerObject(resp)
                /\ resp.result.assets # <<>>
                /\ resp.result.success = <<"false">>

\* success false and the message "boom", but no `assets`: the raw response
\* is raised, not "boom"
C23_Witness ==
    /\ Answered
    /\ resp = RawWithResult(InnerObject(<<"false">>, <<"boom">>, <<>>))
    /\ LastCall.outcome = MalformedResponse
    /\ LastCall.outcome.message # "boom"

=============================================================================
